---------------------------- MODULE Spec2Model ----------------------------
(***************************************************************************)
(* State-machine model of the ChessGame engine (src/src/hooks/Timer.ts).   *)
(*                                                                         *)
(* The board is the 8x8 grid board[row][col] of one-letter strings, "."    *)
(* for an empty square.  A Position is the record [row, col].  The two     *)
(* castling-rights Set objects of the program (this.castlingRights and     *)
(* every Move's castlingRightsBefore) are JavaScript objects that the code *)
(* shares by reference, so they live in a heap, `sets`, and the fields     *)
(* hold references into it.                                                *)
(*                                                                         *)
(* Move lists are modelled as sets of Positions: no generator returns a    *)
(* destination twice and no operation depends on the order.                *)
(***************************************************************************)
EXTENDS Integers, Sequences, FiniteSets, TLC

VARIABLES
    board,              \* ChessGame.board
    lastMove,           \* ChessGame.lastMove (NoMove for null)
    moveLog,            \* ChessGame.moveLog
    redoStack,          \* ChessGame.redoStack
    castlingRights,     \* ChessGame.castlingRights: a reference into sets
    sets,               \* the heap of Set<string> objects, by reference
    history,            \* ChessGame.history (the fen of each entry)
    halfMoveClock,      \* ChessGame.halfMoveClock
    fullMoveNumber,     \* ChessGame.fullMoveNumber
    isCheck,
    checkKingPosition,  \* NoPos for null
    isCheckmate,
    isStalemate,
    isDraw,
    gameOver,
    winner,             \* "white", "black" or "null"
    lastOp,             \* the operation that produced this state
    opCount,            \* the number of operations applied since construction
    layouts,            \* history variable of the shuttle specification: the
                        \* board after each move() so far
    call,               \* history variable: the arguments and the return
                        \* value of the last operation
    forked,             \* history variable: the last successful move()
                        \* discarded undone moves and no undo() followed it
    ui,                 \* the state of the ChessBoard component and the turn
                        \* state of GamePage
    timers              \* the two useTimer instances of GamePage

vars == <<board, lastMove, moveLog, redoStack, castlingRights, sets, history,
          halfMoveClock, fullMoveNumber, isCheck, checkKingPosition,
          isCheckmate, isStalemate, isDraw, gameOver, winner, lastOp, opCount,
          layouts, call, forked, ui, timers>>

-----------------------------------------------------------------------------
(* Bounds of the exploration *)

\* longest move log explored by the general specification
MaxMoves == 2

\* most operations (move, undo, redo) applied by the general specification
MaxOps == 4

\* longest move log explored by the shuttle specification
MaxShuttleMoves == 100

\* most operations applied by the specification of the unrestricted interface
MaxApiOps == 2

\* most operations applied by the specification of the opening line
MaxScriptOps == 9

\* calls in a behaviour of SpecClock
MaxClockOps == 3

\* calls of the engine in a behaviour of SpecUi
MaxUiOps == 5

\* calls of the engine in a behaviour of SpecTimer
MaxTimerOps == 3

\* the seconds on each clock at the start (the page gives each side 600)
InitialSeconds == 3

-----------------------------------------------------------------------------
(* Values *)

Idx == 0..7

Pos(r, c) == [row |-> r, col |-> c]

Squares == {Pos(r, c) : r \in Idx, c \in Idx}

NoPos == [row |-> -1, col |-> -1]

WhiteLetters == {"P", "N", "B", "R", "Q", "K"}

BlackLetters == {"p", "n", "b", "r", "q", "k"}

\* null for lastMove: a Move never has piece "." (move() returns null for it);
\* crbOrig is a history field: the value of the rights set when the Move was
\* created
NoMove == [from |-> NoPos, to |-> NoPos, piece |-> ".", captured |-> ".",
           castlingRightsBefore |-> -1, crbOrig |-> {}]

Abs(x) == IF x < 0 THEN -x ELSE x

toLowerCase(ch) ==
    CASE ch = "P" -> "p" [] ch = "N" -> "n" [] ch = "B" -> "b"
      [] ch = "R" -> "r" [] ch = "Q" -> "q" [] ch = "K" -> "k"
      [] OTHER -> ch

toUpperCase(ch) ==
    CASE ch = "p" -> "P" [] ch = "n" -> "N" [] ch = "b" -> "B"
      [] ch = "r" -> "R" [] ch = "q" -> "Q" [] ch = "k" -> "K"
      [] OTHER -> ch

isInBounds(row, col) == row >= 0 /\ row < 8 /\ col >= 0 /\ col < 8

isWhitePiece(cell) == cell \in WhiteLetters

isBlackPiece(cell) == cell \in BlackLetters

\* piece >= 'A' && piece <= 'Z'
isUpper(cell) == cell \in WhiteLetters

-----------------------------------------------------------------------------
(* Attack test *)

knightOffsets ==
    {<<-2, -1>>, <<-2, 1>>, <<-1, -2>>, <<-1, 2>>,
     <<1, -2>>, <<1, 2>>, <<2, -1>>, <<2, 1>>}

kingOffsets == {<<dr, dc>> \in (-1..1) \X (-1..1) : dr # 0 \/ dc # 0}

rookDirections == {<<-1, 0>>, <<1, 0>>, <<0, -1>>, <<0, 1>>}

bishopDirections == {<<-1, -1>>, <<-1, 1>>, <<1, -1>>, <<1, 1>>}

\* the first occupied square of the ray from (row, col) in direction (dr, dc),
\* or "." when the ray leaves the board
RECURSIVE firstOnRay(_, _, _, _, _)
firstOnRay(b, row, col, dr, dc) ==
    IF ~isInBounds(row, col) THEN "."
    ELSE IF b[row][col] # "." THEN b[row][col]
    ELSE firstOnRay(b, row + dr, col + dc, dr, dc)

\* isSquareAttacked that looks for the attacking pawns on the wrong side
isSquareAttacked_pawnsBehind(b, pos, byColor) ==
    LET white == byColor = "white"
        pawnDirection == IF white THEN -1 ELSE 1
        opponentPawn == IF white THEN "P" ELSE "p"
        opponentKnight == IF white THEN "N" ELSE "n"
        opponentRook == IF white THEN "R" ELSE "r"
        opponentBishop == IF white THEN "B" ELSE "b"
        opponentQueen == IF white THEN "Q" ELSE "q"
        opponentKing == IF white THEN "K" ELSE "k"
        at(r, c, what) == isInBounds(r, c) /\ b[r][c] = what
    IN  \/ \E dc \in {-1, 1} : at(pos.row + pawnDirection, pos.col + dc, opponentPawn)
        \/ \E o \in knightOffsets : at(pos.row + o[1], pos.col + o[2], opponentKnight)
        \/ \E d \in rookDirections :
              firstOnRay(b, pos.row + d[1], pos.col + d[2], d[1], d[2])
                  \in {opponentQueen, opponentRook}
        \/ \E d \in bishopDirections :
              firstOnRay(b, pos.row + d[1], pos.col + d[2], d[1], d[2])
                  \in {opponentQueen, opponentBishop}
        \/ \E o \in kingOffsets : at(pos.row + o[1], pos.col + o[2], opponentKing)

isSquareAttacked(b, pos, byColor) ==
    LET white == byColor = "white"
        pawnDirection == IF white THEN 1 ELSE -1
        opponentPawn == IF white THEN "P" ELSE "p"
        opponentKnight == IF white THEN "N" ELSE "n"
        opponentRook == IF white THEN "R" ELSE "r"
        opponentBishop == IF white THEN "B" ELSE "b"
        opponentQueen == IF white THEN "Q" ELSE "q"
        opponentKing == IF white THEN "K" ELSE "k"
        at(r, c, what) == isInBounds(r, c) /\ b[r][c] = what
    IN  \/ \E dc \in {-1, 1} : at(pos.row + pawnDirection, pos.col + dc, opponentPawn)
        \/ \E o \in knightOffsets : at(pos.row + o[1], pos.col + o[2], opponentKnight)
        \/ \E d \in rookDirections :
              firstOnRay(b, pos.row + d[1], pos.col + d[2], d[1], d[2])
                  \in {opponentQueen, opponentRook}
        \/ \E d \in bishopDirections :
              firstOnRay(b, pos.row + d[1], pos.col + d[2], d[1], d[2])
                  \in {opponentQueen, opponentBishop}
        \/ \E o \in kingOffsets : at(pos.row + o[1], pos.col + o[2], opponentKing)

-----------------------------------------------------------------------------
(* Move generator *)

\* isEnpassantMove without the test of the column of the last move
isEnpassantMove_anyColumn(b, from, to, lm) ==
    LET piece == b[from.row][from.col]
        isWhite == piece = "P"
        direction == IF isWhite THEN -1 ELSE 1
        opponentPawn == IF isWhite THEN "p" ELSE "P"
    IN  /\ piece = "p" \/ isWhite
        /\ Abs(from.col - to.col) = 1
        /\ to.row - from.row = direction
        /\ lm.piece = opponentPawn
        /\ Abs(lm.from.row - lm.to.row) = 2
        /\ lm.to.row = from.row

isEnpassantMove(b, from, to, lm) ==
    LET piece == b[from.row][from.col]
        isWhite == piece = "P"
        direction == IF isWhite THEN -1 ELSE 1
        opponentPawn == IF isWhite THEN "p" ELSE "P"
    IN  /\ piece = "p" \/ isWhite
        /\ Abs(from.col - to.col) = 1
        /\ to.row - from.row = direction
        /\ lm.piece = opponentPawn
        /\ Abs(lm.from.row - lm.to.row) = 2
        /\ lm.to.row = from.row
        /\ lm.to.col = to.col

getLeapingMoves(b, pos, offsets) ==
    LET isWhite == isWhitePiece(b[pos.row][pos.col])
    IN  {Pos(pos.row + o[1], pos.col + o[2]) : o \in
            {o \in offsets :
                /\ isInBounds(pos.row + o[1], pos.col + o[2])
                /\ LET target == b[pos.row + o[1]][pos.col + o[2]]
                   IN  \/ target = "."
                       \/ IF isWhite THEN isBlackPiece(target)
                                     ELSE isWhitePiece(target)}}

RECURSIVE slide(_, _, _, _, _, _)
slide(b, row, col, dr, dc, isWhite) ==
    IF ~isInBounds(row, col) THEN {}
    ELSE LET target == b[row][col]
         IN  IF target = "."
             THEN {Pos(row, col)} \cup slide(b, row + dr, col + dc, dr, dc, isWhite)
             ELSE IF (IF isWhite THEN isBlackPiece(target) ELSE isWhitePiece(target))
                  THEN {Pos(row, col)}
                  ELSE {}

getSlidingMoves(b, pos, directions) ==
    LET isWhite == isWhitePiece(b[pos.row][pos.col])
    IN  UNION {slide(b, pos.row + d[1], pos.col + d[2], d[1], d[2], isWhite) :
                  d \in directions}

getValidRookMoves(b, pos) == getSlidingMoves(b, pos, rookDirections)

getValidBishopMoves(b, pos) == getSlidingMoves(b, pos, bishopDirections)

\* getValidQueenMoves without the diagonals
getValidQueenMoves_asRook(b, pos) == getSlidingMoves(b, pos, rookDirections)

getValidQueenMoves(b, pos) ==
    getValidRookMoves(b, pos) \cup getValidBishopMoves(b, pos)

\* getValidKnightMoves of a generator that has no moves for knights
getValidKnightMoves_unhandled(b, pos) == {}

getValidKnightMoves(b, pos) == getLeapingMoves(b, pos, knightOffsets)

\* getValidKingMoves that tests only the destination square for attacks
getValidKingMoves_unsafeCrossing(b, rights, pos) ==
    LET moves == getLeapingMoves(b, pos, kingOffsets)
        isWhite == isWhitePiece(b[pos.row][pos.col])
        kingRow == IF isWhite THEN 7 ELSE 0
        opponentColor == IF isWhite THEN "black" ELSE "white"
        kingsideRight == IF isWhite THEN "K" ELSE "k"
        queensideRight == IF isWhite THEN "Q" ELSE "q"
        kingside ==
            IF /\ kingsideRight \in rights
               /\ b[kingRow][5] = "."
               /\ b[kingRow][6] = "."
               /\ ~isSquareAttacked(b, Pos(kingRow, 6), opponentColor)
            THEN {Pos(kingRow, 6)} ELSE {}
        queenside ==
            IF /\ queensideRight \in rights
               /\ b[kingRow][1] = "."
               /\ b[kingRow][2] = "."
               /\ b[kingRow][3] = "."
               /\ ~isSquareAttacked(b, Pos(kingRow, 2), opponentColor)
            THEN {Pos(kingRow, 2)} ELSE {}
    IN  IF pos.row # kingRow \/ pos.col # 4 \/ isSquareAttacked(b, pos, opponentColor)
        THEN moves
        ELSE moves \cup kingside \cup queenside

\* rights is the content of this.castlingRights
getValidKingMoves(b, rights, pos) ==
    LET moves == getLeapingMoves(b, pos, kingOffsets)
        isWhite == isWhitePiece(b[pos.row][pos.col])
        kingRow == IF isWhite THEN 7 ELSE 0
        opponentColor == IF isWhite THEN "black" ELSE "white"
        kingsideRight == IF isWhite THEN "K" ELSE "k"
        queensideRight == IF isWhite THEN "Q" ELSE "q"
        kingside ==
            IF /\ kingsideRight \in rights
               /\ b[kingRow][5] = "."
               /\ b[kingRow][6] = "."
               /\ ~isSquareAttacked(b, Pos(kingRow, 5), opponentColor)
               /\ ~isSquareAttacked(b, Pos(kingRow, 6), opponentColor)
            THEN {Pos(kingRow, 6)} ELSE {}
        queenside ==
            IF /\ queensideRight \in rights
               /\ b[kingRow][1] = "."
               /\ b[kingRow][2] = "."
               /\ b[kingRow][3] = "."
               /\ ~isSquareAttacked(b, Pos(kingRow, 2), opponentColor)
               /\ ~isSquareAttacked(b, Pos(kingRow, 3), opponentColor)
            THEN {Pos(kingRow, 2)} ELSE {}
    IN  IF pos.row # kingRow \/ pos.col # 4 \/ isSquareAttacked(b, pos, opponentColor)
        THEN moves
        ELSE moves \cup kingside \cup queenside

getValidWhitePawnMoves(b, lm, pos) ==
    LET row == pos.row
        col == pos.col
        push ==
            IF isInBounds(row - 1, col) /\ b[row - 1][col] = "."
            THEN {Pos(row - 1, col)} \cup
                 (IF row = 6 /\ b[row - 2][col] = "." THEN {Pos(row - 2, col)} ELSE {})
            ELSE {}
        captures ==
            {Pos(row - 1, col + dc) : dc \in
                {dc \in {-1, 1} : /\ isInBounds(row - 1, col + dc)
                                  /\ isBlackPiece(b[row - 1][col + dc])}}
        enpassant ==
            IF row = 3 /\ lm # NoMove
            THEN {Pos(row - 1, col + dc) : dc \in
                    {dc \in {-1, 1} :
                        /\ isInBounds(row - 1, col + dc)
                        /\ isEnpassantMove(b, pos, Pos(row - 1, col + dc), lm)}}
            ELSE {}
    IN  push \cup captures \cup enpassant

getValidBlackPawnMoves(b, lm, pos) ==
    LET row == pos.row
        col == pos.col
        push ==
            IF isInBounds(row + 1, col) /\ b[row + 1][col] = "."
            THEN {Pos(row + 1, col)} \cup
                 (IF row = 1 /\ b[row + 2][col] = "." THEN {Pos(row + 2, col)} ELSE {})
            ELSE {}
        captures ==
            {Pos(row + 1, col + dc) : dc \in
                {dc \in {-1, 1} : /\ isInBounds(row + 1, col + dc)
                                  /\ isWhitePiece(b[row + 1][col + dc])}}
        enpassant ==
            IF row = 4 /\ lm # NoMove
            THEN {Pos(row + 1, col + dc) : dc \in
                    {dc \in {-1, 1} :
                        /\ isInBounds(row + 1, col + dc)
                        /\ isEnpassantMove(b, pos, Pos(row + 1, col + dc), lm)}}
            ELSE {}
    IN  push \cup captures \cup enpassant

\* getValidMoves(pos, true): the switch on the piece, without the filter
pseudoLegalMoves(b, lm, rights, pos) ==
    LET piece == b[pos.row][pos.col]
    IN  CASE piece = "P" -> getValidWhitePawnMoves(b, lm, pos)
          [] piece = "p" -> getValidBlackPawnMoves(b, lm, pos)
          [] piece \in {"R", "r"} -> getValidRookMoves(b, pos)
          [] piece \in {"B", "b"} -> getValidBishopMoves(b, pos)
          [] piece \in {"Q", "q"} -> getValidQueenMoves(b, pos)
          [] piece \in {"N", "n"} -> getValidKnightMoves(b, pos)
          [] piece \in {"K", "k"} -> getValidKingMoves(b, rights, pos)
          [] OTHER -> {}

\* the first square in row-major order that holds the king, NoPos for null
findKing(b, color) ==
    LET kingPiece == IF color = "w" THEN "K" ELSE "k"
        found == {p \in Squares : b[p.row][p.col] = kingPiece}
    IN  IF found = {} THEN NoPos
        ELSE CHOOSE p \in found :
                \A q \in found : p.row * 8 + p.col <= q.row * 8 + q.col

getPieces(b, color) ==
    {p \in Squares :
        /\ b[p.row][p.col] # "."
        /\ (color = "white") = isUpper(b[p.row][p.col])}

isKingInCheck(b, lm, rights, kingColor) ==
    LET kingPos == findKing(b, kingColor)
        opponentColor == IF kingColor = "w" THEN "black" ELSE "white"
    IN  IF kingPos = NoPos THEN FALSE
        ELSE \E piecePos \in getPieces(b, opponentColor) :
                kingPos \in pseudoLegalMoves(b, lm, rights, piecePos)

\* the board on which the filter of getValidMoves tests a destination
probeBoard(b, pos, to) ==
    LET piece == b[pos.row][pos.col]
        b1 == [b EXCEPT ![pos.row][pos.col] = "."]
    IN  [b1 EXCEPT ![to.row][to.col] = piece]

getValidMoves(b, lm, rights, pos) ==
    LET piece == b[pos.row][pos.col]
        kingColor == IF isUpper(piece) THEN "w" ELSE "b"
    IN  {to \in pseudoLegalMoves(b, lm, rights, pos) :
            ~isKingInCheck(probeBoard(b, pos, to), lm, rights, kingColor)}

\* probeRevert that puts back the moved piece only
probeRevert_fromOnly(b, pos, to, piece, originalPieceAtTo) ==
    [b EXCEPT ![pos.row][pos.col] = piece]

\* the filter of getValidMoves undoes its simulation
probeRevert(b, pos, to, piece, originalPieceAtTo) ==
    [[b EXCEPT ![pos.row][pos.col] = piece]
        EXCEPT ![to.row][to.col] = originalPieceAtTo]

\* this.board after the filter has simulated and undone each of moves
RECURSIVE boardAfterFilter(_, _, _)
boardAfterFilter(b, pos, moves) ==
    IF moves = {} THEN b
    ELSE LET to == CHOOSE t \in moves :
                      \A u \in moves : t.row * 8 + t.col <= u.row * 8 + u.col
             tested == probeBoard(b, pos, to)
         IN  boardAfterFilter(
                 probeRevert(tested, pos, to, b[pos.row][pos.col],
                             b[to.row][to.col]),
                 pos, moves \ {to})

getAllValidMoves(b, lm, rights, kingColor) ==
    LET playerColor == IF kingColor = "w" THEN "white" ELSE "black"
    IN  UNION {{[from |-> p, to |-> t] : t \in getValidMoves(b, lm, rights, p)} :
                  p \in getPieces(b, playerColor)}

-----------------------------------------------------------------------------
(* Game-end evaluator *)

\* the letters of all pieces, lower-cased, as a count per letter
\* (pieces.map(toLowerCase).sort().join(''))
pieceChars(b) ==
    [ch \in BlackLetters |->
        Cardinality({p \in Squares : toLowerCase(b[p.row][p.col]) = ch})]

charsAre(b, p, n, bb, r, q, k) ==
    pieceChars(b) = [ch \in BlackLetters |->
        CASE ch = "p" -> p [] ch = "n" -> n [] ch = "b" -> bb
          [] ch = "r" -> r [] ch = "q" -> q [] ch = "k" -> k]

\* every letter on the board is one of the twelve piece letters
onlyPieceLetters(b) ==
    \A p \in Squares : b[p.row][p.col] \in WhiteLetters \cup BlackLetters \cup {"."}

isInsufficientMaterial(b) ==
    /\ onlyPieceLetters(b)
    /\ \/ charsAre(b, 0, 0, 0, 0, 0, 1)
       \/ charsAre(b, 0, 1, 0, 0, 0, 1) \/ charsAre(b, 0, 1, 0, 0, 0, 2)
       \/ charsAre(b, 0, 0, 1, 0, 0, 1) \/ charsAre(b, 0, 0, 1, 0, 0, 2)
       \/ /\ charsAre(b, 0, 0, 2, 0, 0, 2)
          /\ \A x, y \in {p \in Squares : toLowerCase(b[p.row][p.col]) = "b"} :
                (x.row + x.col) % 2 = (y.row + y.col) % 2

\* one row of the layout string: the letters, and the lengths of the runs of
\* empty squares between them
RECURSIVE fenRow(_, _, _)
fenRow(rowCells, j, empty) ==
    IF j > 7 THEN (IF empty > 0 THEN <<empty>> ELSE <<>>)
    ELSE IF rowCells[j] = "." THEN fenRow(rowCells, j + 1, empty + 1)
    ELSE (IF empty > 0 THEN <<empty>> ELSE <<>>) \o <<rowCells[j]>> \o
         fenRow(rowCells, j + 1, 0)

boardToFen(b) == [i \in 0..7 |-> fenRow(b[i], 0, 0)]

isThreefoldRepetition(g) ==
    LET count == Cardinality({i \in 1..Len(g.history) :
                                 g.history[i] = boardToFen(g.board)})
    IN  count >= 2

Rights(g) == g.sets[g.castlingRights]

\* mateWinner naming the side that is mated
mateWinner_sideToMove(turn) == turn

\* the winner updateGameState names on checkmate
mateWinner(turn) == IF turn = "white" THEN "black" ELSE "white"

updateGameState(g) ==
    LET turn == IF Len(g.moveLog) % 2 = 0 THEN "white" ELSE "black"
        kingColor == IF turn = "white" THEN "w" ELSE "b"
        check == isKingInCheck(g.board, g.lastMove, Rights(g), kingColor)
        hasValidMoves ==
            getAllValidMoves(g.board, g.lastMove, Rights(g), kingColor) # {}
        g1 == [g EXCEPT !.isCheck = check,
                        !.checkKingPosition =
                            IF check THEN findKing(g.board, kingColor) ELSE NoPos]
    IN  IF check /\ ~hasValidMoves
        THEN [g1 EXCEPT !.isCheckmate = TRUE, !.gameOver = TRUE,
                        !.winner = mateWinner(turn)]
        ELSE IF ~check /\ ~hasValidMoves
        THEN [g1 EXCEPT !.isStalemate = TRUE, !.gameOver = TRUE]
        ELSE IF \/ isInsufficientMaterial(g.board)
                \/ isThreefoldRepetition(g)
                \/ g.halfMoveClock >= 100
        THEN [g1 EXCEPT !.isDraw = TRUE, !.gameOver = TRUE]
        ELSE g1

-----------------------------------------------------------------------------
(* The heap of Set objects *)

\* The Set objects the program can reach, in the order this.castlingRights,
\* the moves of the log, the moves of the redo stack.  lastMove is null or
\* the last move of the log.
refSeq(g) ==
    <<g.castlingRights>>
        \o [i \in 1..Len(g.moveLog) |-> g.moveLog[i].castlingRightsBefore]
        \o [i \in 1..Len(g.redoStack) |-> g.redoStack[i].castlingRightsBefore]

liveRefs(g) == {refSeq(g)[i] : i \in 1..Len(refSeq(g))}

\* new Set(...): the reference of a fresh object
newRef(g) == Cardinality(liveRefs(g))

\* the number of objects that refSeq meets before it first meets r
rank(seq, r) ==
    LET first == CHOOSE i \in 1..Len(seq) :
                    seq[i] = r /\ \A j \in 1..(i - 1) : seq[j] # r
    IN  Cardinality({seq[j] : j \in 1..(first - 1)})

\* Garbage collection: unreachable objects leave the heap.  A reference is
\* only a name, so the reachable objects are named by their rank in refSeq;
\* two heaps that differ only in the names are one state.
collect(g) ==
    LET seq == refSeq(g)
        name(r) == rank(seq, r)
        renamed(m) == [m EXCEPT !.castlingRightsBefore = name(@)]
    IN  [g EXCEPT
            !.castlingRights = name(@),
            !.moveLog = [i \in 1..Len(g.moveLog) |-> renamed(g.moveLog[i])],
            !.redoStack = [i \in 1..Len(g.redoStack) |-> renamed(g.redoStack[i])],
            !.lastMove = IF @ = NoMove THEN NoMove ELSE renamed(@),
            !.sets = [n \in 0..(Cardinality(liveRefs(g)) - 1) |->
                         g.sets[CHOOSE r \in liveRefs(g) : name(r) = n]]]

-----------------------------------------------------------------------------
(* Move applier *)

\* clearedByMove without the flags of a captured rook
clearedByMove_ignoringCapture(piece, from, to, actualCaptured) ==
    (IF piece = "K" THEN {"K", "Q"} ELSE IF piece = "k" THEN {"k", "q"} ELSE {})
    \cup (IF piece = "R" /\ from.row = 7 /\ from.col = 0 THEN {"Q"} ELSE {})
    \cup (IF piece = "R" /\ from.row = 7 /\ from.col = 7 THEN {"K"} ELSE {})
    \cup (IF piece = "r" /\ from.row = 0 /\ from.col = 0 THEN {"q"} ELSE {})
    \cup (IF piece = "r" /\ from.row = 0 /\ from.col = 7 THEN {"k"} ELSE {})

\* the flags move() deletes from this.castlingRights
clearedByMove(piece, from, to, actualCaptured) ==
    (IF piece = "K" THEN {"K", "Q"} ELSE IF piece = "k" THEN {"k", "q"} ELSE {})
    \cup (IF piece = "R" /\ from.row = 7 /\ from.col = 0 THEN {"Q"} ELSE {})
    \cup (IF piece = "R" /\ from.row = 7 /\ from.col = 7 THEN {"K"} ELSE {})
    \cup (IF piece = "r" /\ from.row = 0 /\ from.col = 0 THEN {"q"} ELSE {})
    \cup (IF piece = "r" /\ from.row = 0 /\ from.col = 7 THEN {"k"} ELSE {})
    \cup (IF actualCaptured = "R" /\ to.row = 7 /\ to.col = 0 THEN {"Q"} ELSE {})
    \cup (IF actualCaptured = "R" /\ to.row = 7 /\ to.col = 7 THEN {"K"} ELSE {})
    \cup (IF actualCaptured = "r" /\ to.row = 0 /\ to.col = 0 THEN {"q"} ELSE {})
    \cup (IF actualCaptured = "r" /\ to.row = 0 /\ to.col = 7 THEN {"k"} ELSE {})

\* castleRook that leaves the rook in its corner
castleRook_kingOnly(b, isCastling, from, to) == b

\* the rook's part of a castling move, shared by move() and redo()
castleRook(b, isCastling, from, to) ==
    IF ~isCastling THEN b
    ELSE IF to.col = 6
    THEN [[b EXCEPT ![from.row][5] = b[from.row][7]] EXCEPT ![from.row][7] = "."]
    ELSE IF to.col = 2
    THEN [[b EXCEPT ![from.row][3] = b[from.row][0]] EXCEPT ![from.row][0] = "."]
    ELSE b

\* moveIsNull without the test of the from square
moveIsNull_boundsOnly(g, from, to) == ~isInBounds(to.row, to.col)

\* move() returns null: empty from square or to out of bounds
moveIsNull(g, from, to) ==
    g.board[from.row][from.col] = "." \/ ~isInBounds(to.row, to.col)

\* whether move() takes the en passant branch
moveIsEnpassant(g, from, to) ==
    /\ g.board[from.row][from.col] \in {"P", "p"}
    /\ g.lastMove # NoMove
    /\ isEnpassantMove(g.board, from, to, g.lastMove)

movePromotes(g, from, to) ==
    \/ g.board[from.row][from.col] = "P" /\ to.row = 0
    \/ g.board[from.row][from.col] = "p" /\ to.row = 7

\* the piece move() removes from the board ("." when none)
moveCaptured(g, from, to) ==
    IF moveIsEnpassant(g, from, to)
    THEN g.board[IF g.board[from.row][from.col] = "P"
                 THEN to.row + 1 ELSE to.row - 1][to.col]
    ELSE g.board[to.row][to.col]

\* redoAfterMove that keeps the undone moves
redoAfterMove_kept(stack) == stack

\* the redo stack move() leaves: this.redoStack = []
redoAfterMove(stack) == <<>>

\* move() up to the call of updateGameState; promotionPiece is "" when absent
moveBody(g, from, to, promotionPiece) ==
    LET piece == g.board[from.row][from.col]
        isWhitePawn == piece = "P"
        enpassant == moveIsEnpassant(g, from, to)
        capturedRow == IF isWhitePawn THEN to.row + 1 ELSE to.row - 1
        actualCaptured == moveCaptured(g, from, to)
        b1 == IF enpassant THEN [g.board EXCEPT ![capturedRow][to.col] = "."]
              ELSE g.board
        promoteTo == toLowerCase(IF promotionPiece = "" THEN "q" ELSE promotionPiece)
        pieceToPlace ==
            IF movePromotes(g, from, to)
            THEN (IF isWhitePawn THEN toUpperCase(promoteTo) ELSE promoteTo)
            ELSE piece
        b2 == [[b1 EXCEPT ![to.row][to.col] = pieceToPlace]
                   EXCEPT ![from.row][from.col] = "."]
        isCastling == piece \in {"K", "k"} /\ Abs(from.col - to.col) = 2
        b3 == castleRook(b2, isCastling, from, to)
        before == newRef(g)
        move == [from |-> from, to |-> to, piece |-> piece,
                 captured |-> actualCaptured,
                 castlingRightsBefore |-> before, crbOrig |-> Rights(g)]
        heap == [r \in DOMAIN g.sets \cup {before} |->
                    IF r = before THEN Rights(g)
                    ELSE IF r = g.castlingRights
                    THEN Rights(g) \ clearedByMove(piece, from, to, actualCaptured)
                    ELSE g.sets[r]]
    IN  collect([g EXCEPT !.board = b3, !.sets = heap, !.lastMove = move,
                          !.moveLog = Append(g.moveLog, move),
                          !.redoStack = redoAfterMove(g.redoStack)])

\* move() that also counts the move in fullMoveNumber
move_countingMoves(g, from, to, promotionPiece) ==
    IF moveIsNull(g, from, to) THEN g
    ELSE [updateGameState(moveBody(g, from, to, promotionPiece))
             EXCEPT !.fullMoveNumber = @ + 1]

move(g, from, to, promotionPiece) ==
    IF moveIsNull(g, from, to) THEN g
    ELSE updateGameState(moveBody(g, from, to, promotionPiece))

\* !!value for a string: only the empty string is falsy
truthy(value) == value # ""

\* what move() returns; isNull stands for null
NullResult == [isNull |-> TRUE, captured |-> FALSE, castling |-> FALSE]

moveResult(g, from, to) ==
    IF moveIsNull(g, from, to) THEN NullResult
    ELSE [isNull |-> FALSE,
          captured |-> truthy(moveCaptured(g, from, to)),
          castling |-> /\ g.board[from.row][from.col] \in {"K", "k"}
                       /\ Abs(from.col - to.col) = 2]

\* undoRestoreSquare that always names the destination square
undoRestoreSquare_destination(b, last) == last.to

\* the square on which undo() puts the captured piece back
undoRestoreSquare(b, last) ==
    IF \/ /\ last.piece = "P" /\ last.from.row = 3 /\ last.to.row = 2
          /\ Abs(last.from.col - last.to.col) = 1
          /\ b[last.to.row][last.to.col] = "."
       \/ /\ last.piece = "p" /\ last.from.row = 4 /\ last.to.row = 5
          /\ Abs(last.from.col - last.to.col) = 1
          /\ b[last.to.row][last.to.col] = "."
    THEN Pos(IF last.piece = "P" THEN last.to.row + 1 ELSE last.to.row - 1,
             last.to.col)
    ELSE last.to

\* the rook's part of undoing a castling move
uncastleRook(b, isCastling, from, to) ==
    IF ~isCastling THEN b
    ELSE IF to.col = 6
    THEN [[b EXCEPT ![from.row][7] = b[from.row][5]] EXCEPT ![from.row][5] = "."]
    ELSE IF to.col = 2
    THEN [[b EXCEPT ![from.row][0] = b[from.row][3]] EXCEPT ![from.row][3] = "."]
    ELSE b

undo(g) ==
    IF Len(g.moveLog) = 0 THEN g
    ELSE
    LET last == g.moveLog[Len(g.moveLog)]
        log == SubSeq(g.moveLog, 1, Len(g.moveLog) - 1)
        from == last.from
        to == last.to
        b1 == [[g.board EXCEPT ![from.row][from.col] = last.piece]
                        EXCEPT ![to.row][to.col] = "."]
        isCastling == last.piece \in {"K", "k"} /\ Abs(from.col - to.col) = 2
        b2 == uncastleRook(b1, isCastling, from, to)
        sq == undoRestoreSquare(b2, last)
        b3 == IF last.captured # "."
              THEN [b2 EXCEPT ![sq.row][sq.col] = last.captured]
              ELSE b2
    IN  collect([g EXCEPT !.board = b3,
                          !.moveLog = log,
                          !.castlingRights = last.castlingRightsBefore,
                          !.redoStack = Append(g.redoStack, last),
                          !.lastMove = IF Len(log) = 0 THEN NoMove
                                       ELSE log[Len(log)]])

\* clearedByRedo that looks at king moves only
clearedByRedo_kingsOnly(piece, from, to, captured) ==
    IF piece = "K" THEN {"K", "Q"} ELSE IF piece = "k" THEN {"k", "q"} ELSE {}

\* the flags redo() deletes from this.castlingRights
clearedByRedo(piece, from, to, captured) ==
    (IF piece = "K" THEN {"K", "Q"} ELSE IF piece = "k" THEN {"k", "q"} ELSE {})
    \cup (IF /\ piece = "R" \/ captured = "R"
             /\ (from.row = 7 /\ from.col = 0) \/ (to.row = 7 /\ to.col = 0)
          THEN {"Q"} ELSE {})
    \cup (IF /\ piece = "R" \/ captured = "R"
             /\ (from.row = 7 /\ from.col = 7) \/ (to.row = 7 /\ to.col = 7)
          THEN {"K"} ELSE {})
    \cup (IF /\ piece = "r" \/ captured = "r"
             /\ (from.row = 0 /\ from.col = 0) \/ (to.row = 0 /\ to.col = 0)
          THEN {"q"} ELSE {})
    \cup (IF /\ piece = "r" \/ captured = "r"
             /\ (from.row = 0 /\ from.col = 7) \/ (to.row = 0 /\ to.col = 7)
          THEN {"k"} ELSE {})

\* the piece redo() puts on the destination square
redoPlaced(m) == m.piece

\* redoNothing that drops the reference to the last move
redoNothing_forgetsLastMove(g) == [g EXCEPT !.lastMove = NoMove]

\* redo() with an empty redo stack: return
redoNothing(g) == g

redo(g) ==
    IF Len(g.redoStack) = 0 THEN redoNothing(g)
    ELSE
    LET m == g.redoStack[Len(g.redoStack)]
        from == m.from
        to == m.to
        piece == m.piece
        enpassant ==
            /\ piece \in {"P", "p"}
            /\ g.lastMove # NoMove
            /\ isEnpassantMove(g.board, from, to, g.lastMove)
            /\ m.captured # "."
        capturedRow == IF piece = "P" THEN to.row + 1 ELSE to.row - 1
        b1 == IF enpassant THEN [g.board EXCEPT ![capturedRow][to.col] = "."]
              ELSE g.board
        b2 == [[b1 EXCEPT ![to.row][to.col] = redoPlaced(m)]
                   EXCEPT ![from.row][from.col] = "."]
        isCastling == piece \in {"K", "k"} /\ Abs(from.col - to.col) = 2
        b3 == castleRook(b2, isCastling, from, to)
    IN  collect([g EXCEPT !.board = b3,
                          !.sets[g.castlingRights] =
                              @ \ clearedByRedo(piece, from, to, m.captured),
                          !.redoStack = SubSeq(g.redoStack, 1, Len(g.redoStack) - 1),
                          !.moveLog = Append(g.moveLog, m),
                          !.lastMove = m])

-----------------------------------------------------------------------------
(* Construction from an initial position encoding *)

Digits == {"1", "2", "3", "4", "5", "6", "7", "8"}

Number(ch) ==
    CASE ch = "1" -> 1 [] ch = "2" -> 2 [] ch = "3" -> 3 [] ch = "4" -> 4
      [] ch = "5" -> 5 [] ch = "6" -> 6 [] ch = "7" -> 7 [] ch = "8" -> 8

RECURSIVE dots(_)
dots(n) == IF n = 0 THEN <<>> ELSE <<".">> \o dots(n - 1)

\* one row of the layout, a sequence of characters, as its cells
RECURSIVE fenRowToCells(_)
fenRowToCells(row) ==
    IF row = <<>> THEN <<>>
    ELSE (IF Head(row) \in Digits THEN dots(Number(Head(row))) ELSE <<Head(row)>>)
         \o fenRowToCells(Tail(row))

\* fenBoard: the "/"-separated rows, each a sequence of characters
fenToBoard(fenBoard) ==
    [r \in Idx |-> [c \in Idx |-> fenRowToCells(fenBoard[r + 1])[c + 1]]]

\* parseInt(text, 10) || dflt; a numeric field is [isNumber, value]
parseIntOr(field, dflt) ==
    IF field.isNumber /\ field.value # 0 THEN field.value ELSE dflt

Num(n) == [isNumber |-> TRUE, value |-> n]

\* the fields of a ChessGame after the field initialisers and the body of the
\* constructor, before its call of updateGameState
constructed(fen) ==
    [board |-> fenToBoard(fen.board),
     lastMove |-> NoMove,
     moveLog |-> <<>>,
     redoStack |-> <<>>,
     castlingRights |-> 0,
     sets |-> [r \in {0} |->
                  IF fen.castling = <<"-">> THEN {}
                  ELSE {fen.castling[i] : i \in 1..Len(fen.castling)}],
     history |-> <<>>,
     halfMoveClock |-> parseIntOr(fen.halfMove, 0),
     fullMoveNumber |-> parseIntOr(fen.fullMove, 1),
     isCheck |-> FALSE,
     checkKingPosition |-> NoPos,
     isCheckmate |-> FALSE,
     isStalemate |-> FALSE,
     isDraw |-> FALSE,
     gameOver |-> FALSE,
     winner |-> "null"]

newChessGame(fen) == updateGameState(constructed(fen))

Fen(rows, castling, halfMove, fullMove) ==
    [board |-> rows, castling |-> castling,
     halfMove |-> halfMove, fullMove |-> fullMove]

\* a4 king and d4 pawn of black, h4 rook and c2 pawn of white
FenPin ==
    Fen(<<<<"8">>, <<"8">>, <<"8">>, <<"8">>,
          <<"k", "2", "p", "3", "R">>, <<"8">>, <<"2", "P", "5">>,
          <<"7", "K">>>>, <<"-">>, Num(0), Num(1))

\* e5 pawn beside its king on f5, a black knight on f6
FenCapture ==
    Fen(<<<<"k", "7">>, <<"8">>, <<"5", "n", "2">>, <<"4", "P", "K", "2">>,
          <<"8">>, <<"8">>, <<"8">>, <<"8">>>>, <<"-">>, Num(0), Num(1))

\* mate in one by the rook or the g7 pawn
FenMate ==
    Fen(<<<<"k", "7">>, <<"6", "P", "1">>, <<"1", "K", "6">>, <<"8">>,
          <<"8">>, <<"8">>, <<"8">>, <<"7", "R">>>>, <<"-">>, Num(0), Num(1))

\* stalemate in one by the king
FenStalemate ==
    Fen(<<<<"k", "7">>, <<"P", "7">>, <<"2", "K", "5">>, <<"8">>,
          <<"8">>, <<"8">>, <<"8">>, <<"8">>>>, <<"-">>, Num(0), Num(1))

\* white may castle kingside; the a8 bishop bears on the h1 rook
FenCastle ==
    Fen(<<<<"b", "3", "k", "3">>, <<"8">>, <<"8">>, <<"8">>,
          <<"8">>, <<"8">>, <<"7", "P">>, <<"4", "K", "2", "R">>>>,
        <<"K">>, Num(0), Num(1))

\* each side has one legal move, its king stepping between a1/b1 and a8/b8
FenShuttle ==
    Fen(<<<<"k", "1", "b", "5">>, <<"1", "p", "1", "p", "4">>,
          <<"1", "P", "1", "P", "4">>, <<"8">>, <<"8">>,
          <<"1", "p", "1", "p", "4">>, <<"1", "P", "1", "P", "4">>,
          <<"K", "1", "B", "5">>>>, <<"-">>, Num(0), Num(1))

\* after c2-c4 the pawn checks the b5 king and d4xc3 en passant removes it
FenEnPassantCheck ==
    Fen(<<<<"8">>, <<"8">>, <<"8">>, <<"1", "k", "6">>,
          <<"3", "p", "4">>, <<"8">>, <<"2", "P", "5">>,
          <<"7", "K">>>>, <<"-">>, Num(0), Num(1))

\* white may castle queenside and black kingside; every pawn is blocked
FenCastleBoth ==
    Fen(<<<<"4", "k", "2", "r">>, <<"7", "p">>, <<"7", "P">>,
          <<"8">>, <<"8">>, <<"p", "7">>, <<"P", "7">>,
          <<"R", "3", "K", "3">>>>,
        <<"Q", "k">>, Num(0), Num(1))

\* the standard starting position
FenStandard ==
    Fen(<<<<"r", "n", "b", "q", "k", "b", "n", "r">>,
          <<"p", "p", "p", "p", "p", "p", "p", "p">>,
          <<"8">>, <<"8">>, <<"8">>, <<"8">>,
          <<"P", "P", "P", "P", "P", "P", "P", "P">>,
          <<"R", "N", "B", "Q", "K", "B", "N", "R">>>>,
        <<"K", "Q", "k", "q">>, Num(0), Num(1))

\* the squares clicked in 1.e4 e5 2.Bc4 Nc6 3.Qh5 Nf6 4.Qxf7
ScholarsMate ==
    <<[from |-> Pos(6, 4), to |-> Pos(4, 4)], [from |-> Pos(1, 4), to |-> Pos(3, 4)],
      [from |-> Pos(7, 5), to |-> Pos(4, 2)], [from |-> Pos(0, 1), to |-> Pos(2, 2)],
      [from |-> Pos(7, 3), to |-> Pos(3, 7)], [from |-> Pos(0, 6), to |-> Pos(2, 5)],
      [from |-> Pos(3, 7), to |-> Pos(1, 5)]>>

\* Nf8-g6 mates the h8 king; Nf8xh7 leaves the kings and a knight
FenKnightMate ==
    Fen(<<<<"5", "N", "1", "k">>, <<"5", "K", "1", "n">>, <<"8">>, <<"8">>,
          <<"8">>, <<"8">>, <<"8">>, <<"8">>>>, <<"-">>, Num(0), Num(1))

\* the two kings alone
FenBareKings ==
    Fen(<<<<"4", "k", "3">>, <<"8">>, <<"8">>, <<"8">>,
          <<"8">>, <<"8">>, <<"8">>, <<"4", "K", "3">>>>, <<"-">>, Num(0), Num(1))

\* the two kings and a white knight
FenLoneKnight ==
    Fen(<<<<"4", "k", "3">>, <<"8">>, <<"8">>, <<"8">>,
          <<"8">>, <<"8">>, <<"8">>, <<"4", "K", "N", "2">>>>, <<"-">>, Num(0), Num(1))

\* the b2 knight attacks d1, the square the white king crosses castling
\* queenside; kingside is free
FenCastleAttacked ==
    Fen(<<<<"7", "k">>, <<"8">>, <<"8">>, <<"8">>, <<"8">>,
          <<"p", "6", "p">>, <<"P", "n", "5", "P">>,
          <<"R", "3", "K", "2", "R">>>>,
        <<"K", "Q">>, Num(0), Num(1))

\* the kingside flag of white is set and no rook stands on h1
FenCastleNoRook ==
    Fen(<<<<"4", "k", "3">>, <<"8">>, <<"8">>, <<"8">>,
          <<"8">>, <<"8">>, <<"8">>, <<"4", "K", "3">>>>, <<"K">>, Num(0), Num(1))

CastleFens == {FenCastleBoth, FenCastleAttacked, FenCastleNoRook}

MaterialFens == {FenKnightMate, FenBareKings, FenLoneKnight}

Fens == {FenPin, FenCapture, FenMate, FenStalemate, FenCastle,
         FenEnPassantCheck}

\* promotionPiece as the callers pass it ("" when absent)
PromotionChoices == {"", "q", "r", "b", "n"}

\* promotionPiece as any caller of move() may pass it: a string
PromotionInputs == PromotionChoices \cup {"k"}

\* no move() yet, or the last operation was undo() or redo()
NoCall == [from |-> NoPos, to |-> NoPos, promotionPiece |-> "",
           result |-> NullResult]

\* from and to as any caller of move() may pass them: the g7 pawn, the a8
\* king and the h1 rook of FenMate and the empty e4; g8, g7, h1 and two
\* positions off the board
ApiFroms == {Pos(1, 6), Pos(0, 0), Pos(7, 7), Pos(4, 4)}

ApiTos == {Pos(0, 6), Pos(1, 6), Pos(7, 7), Pos(8, 0), Pos(0, -1)}

-----------------------------------------------------------------------------
(* The state machine *)

Cur ==
    [board |-> board, lastMove |-> lastMove, moveLog |-> moveLog,
     redoStack |-> redoStack, castlingRights |-> castlingRights, sets |-> sets,
     history |-> history, halfMoveClock |-> halfMoveClock,
     fullMoveNumber |-> fullMoveNumber, isCheck |-> isCheck,
     checkKingPosition |-> checkKingPosition, isCheckmate |-> isCheckmate,
     isStalemate |-> isStalemate, isDraw |-> isDraw, gameOver |-> gameOver,
     winner |-> winner]

Install(g) ==
    /\ board' = g.board
    /\ lastMove' = g.lastMove
    /\ moveLog' = g.moveLog
    /\ redoStack' = g.redoStack
    /\ castlingRights' = g.castlingRights
    /\ sets' = g.sets
    /\ history' = g.history
    /\ halfMoveClock' = g.halfMoveClock
    /\ fullMoveNumber' = g.fullMoveNumber
    /\ isCheck' = g.isCheck
    /\ checkKingPosition' = g.checkKingPosition
    /\ isCheckmate' = g.isCheckmate
    /\ isStalemate' = g.isStalemate
    /\ isDraw' = g.isDraw
    /\ gameOver' = g.gameOver
    /\ winner' = g.winner

------------------------------------------------------------------------------
(* The page: the clocks of GamePage and the state of the ChessBoard component *)

\* useTimer after its useState and useRef calls; intervalRef 0 stands for
\* null, intervals is the set of the window intervals of this timer that
\* have not been cleared
newTimer ==
    [remainingSeconds |-> InitialSeconds, isRunning |-> FALSE,
     intervalRef |-> 0, intervals |-> {}]

\* window.setInterval returns an id no live interval has
freshInterval(ts) ==
    CHOOSE id \in 1..(Cardinality(ts.white.intervals \cup ts.black.intervals) + 1) :
        id \notin ts.white.intervals \cup ts.black.intervals

\* startTimer that does not look at intervalRef
startTimer_unguarded(ts, color) ==
    [ts EXCEPT ![color].isRunning = TRUE,
               ![color].intervalRef = freshInterval(ts),
               ![color].intervals = @ \cup {freshInterval(ts)}]

startTimer(ts, color) ==
    IF ts[color].intervalRef # 0 THEN ts
    ELSE [ts EXCEPT ![color].isRunning = TRUE,
                    ![color].intervalRef = freshInterval(ts),
                    ![color].intervals = @ \cup {freshInterval(ts)}]

pauseTimer(ts, color) ==
    IF ts[color].intervalRef # 0
    THEN [ts EXCEPT ![color].intervals = @ \ {ts[color].intervalRef},
                    ![color].intervalRef = 0,
                    ![color].isRunning = FALSE]
    ELSE ts

\* the callback of an interval of the timer of color
tick(ts, color) ==
    IF ts[color].remainingSeconds <= 1
    THEN [ts EXCEPT ![color].intervals = @ \ {ts[color].intervalRef},
                    ![color].intervalRef = 0,
                    ![color].isRunning = FALSE,
                    ![color].remainingSeconds = 0]
    ELSE [ts EXCEPT ![color].remainingSeconds = @ - 1]

\* the effect of GamePage on [turn]
turnEffect(ts, turn) ==
    IF turn = "white" THEN pauseTimer(startTimer(ts, "white"), "black")
    ELSE pauseTimer(startTimer(ts, "black"), "white")

\* the timers after the first run of the effect
mountedTimers == turnEffect([white |-> newTimer, black |-> newTimer], "white")

\* setTurn(turn) of GamePage and the effect that follows the render
afterSetTurn(ts, old, turn) == IF turn = old THEN ts ELSE turnEffect(ts, turn)

\* null of draggingPiece and of promotion
NoDrag ==
    [isNull |-> TRUE, piece |-> ".", from |-> NoPos, to |-> NoPos,
     isPromotion |-> FALSE, isValidMove |-> FALSE]

NoPromotion == [isNull |-> TRUE, from |-> NoPos, to |-> NoPos]

\* the state of the component after its first render: board is the
\* component's copy of game.board, dragged the piece a drag has started on,
\* animating whether the animation of draggingPiece still runs
mounted(g) ==
    [turn |-> "white", board |-> g.board, selected |-> NoPos,
     validTargets |-> {}, disableInteraction |-> FALSE,
     draggingPiece |-> NoDrag, animating |-> FALSE,
     promotion |-> NoPromotion, dragged |-> NoPos]

\* piece >= "a" && piece <= "z" ? "black" : "white"
pieceColor(piece) == IF isBlackPiece(piece) THEN "black" ELSE "white"

\* nextTurn that keeps the turn
nextTurn_same(turn) == turn

\* props.turn === "white" ? "black" : "white"
nextTurn(turn) == IF turn = "white" THEN "black" ELSE "white"

Start(fen) ==
    LET g == newChessGame(fen)
    IN  /\ board = g.board
        /\ lastMove = g.lastMove
        /\ moveLog = g.moveLog
        /\ redoStack = g.redoStack
        /\ castlingRights = g.castlingRights
        /\ sets = g.sets
        /\ history = g.history
        /\ halfMoveClock = g.halfMoveClock
        /\ fullMoveNumber = g.fullMoveNumber
        /\ isCheck = g.isCheck
        /\ checkKingPosition = g.checkKingPosition
        /\ isCheckmate = g.isCheckmate
        /\ isStalemate = g.isStalemate
        /\ isDraw = g.isDraw
        /\ gameOver = g.gameOver
        /\ winner = g.winner
        /\ lastOp = "init"
        /\ opCount = 0
        /\ layouts = <<>>
        /\ call = NoCall
        /\ forked = FALSE
        /\ ui = mounted(g)
        /\ timers = mountedTimers

Init == \E fen \in Fens : Start(fen)

\* the side to move, by the parity of the move log
sideToMove(g) == IF Len(g.moveLog) % 2 = 0 THEN "white" ELSE "black"

\* the moves a caller takes from the generator: a piece of the side to move,
\* a destination of getValidMoves, a promotion choice when a pawn promotes
offered(g) ==
    {m \in [from : getPieces(g.board, sideToMove(g)), to : Squares,
            promotionPiece : PromotionChoices] :
        /\ m.to \in getValidMoves(g.board, g.lastMove, Rights(g), m.from)
        /\ m.promotionPiece # "" => movePromotes(g, m.from, m.to)}

\* the call move(from, to, promotionPiece) and the history it leaves
Called(from, to, promotionPiece) ==
    /\ Install(move(Cur, from, to, promotionPiece))
    /\ lastOp' = "move"
    /\ opCount' = opCount + 1
    /\ call' = [from |-> from, to |-> to, promotionPiece |-> promotionPiece,
                result |-> moveResult(Cur, from, to)]
    /\ forked' = IF moveIsNull(Cur, from, to) THEN forked
                 ELSE Len(redoStack) > 0

\* move(from, to, promotionPiece) on a destination the generator offered
MoveStep ==
    \E from \in getPieces(board, sideToMove(Cur)) :
      \E to \in getValidMoves(board, lastMove, sets[castlingRights], from) :
        \E promotionPiece \in
              IF movePromotes(Cur, from, to) THEN PromotionChoices ELSE {""} :
            Called(from, to, promotionPiece)

Move ==
    /\ Len(moveLog) < MaxMoves
    /\ opCount < MaxOps
    /\ MoveStep
    /\ UNCHANGED <<layouts, ui, timers>>

\* Undone with the status recomputed after the undo
Undone_recomputing ==
    /\ Install(updateGameState(undo(Cur)))
    /\ lastOp' = "undo"
    /\ opCount' = opCount + 1
    /\ call' = NoCall
    /\ forked' = (forked /\ Len(moveLog) = 0)

\* the call undo()
Undone ==
    /\ Install(undo(Cur))
    /\ lastOp' = "undo"
    /\ opCount' = opCount + 1
    /\ call' = NoCall
    /\ forked' = (forked /\ Len(moveLog) = 0)

\* the call redo()
Redone ==
    /\ Install(redo(Cur))
    /\ lastOp' = "redo"
    /\ opCount' = opCount + 1
    /\ call' = NoCall
    /\ forked' = forked

\* the game after the call getValidMoves(pos)
afterGetValidMoves(g, pos) ==
    [g EXCEPT !.board =
        boardAfterFilter(g.board, pos,
                         pseudoLegalMoves(g.board, g.lastMove, Rights(g), pos))]

\* the call getValidMoves(pos)
Queried(pos) ==
    /\ Install(afterGetValidMoves(Cur, pos))
    /\ lastOp' = "getValidMoves"
    /\ opCount' = opCount + 1
    /\ call' = [NoCall EXCEPT !.from = pos]
    /\ forked' = forked

Undo ==
    /\ opCount < MaxOps
    /\ Len(moveLog) > 0
    /\ Undone
    /\ UNCHANGED <<layouts, ui, timers>>

Redo ==
    /\ opCount < MaxOps
    /\ Len(redoStack) > 0
    /\ Redone
    /\ UNCHANGED <<layouts, ui, timers>>

Next == Move \/ Undo \/ Redo

Spec == Init /\ [][Next]_vars

\* the same operations from the positions about castling
InitCastle == \E fen \in CastleFens : Start(fen)

SpecCastle == InitCastle /\ [][Next]_vars

\* the opening line from the standard position: each move is played when the
\* generator offers it; undo() and redo() may be called in between
InitOpening == Start(FenStandard)

ScriptMove ==
    /\ opCount < MaxScriptOps
    /\ Len(moveLog) < Len(ScholarsMate)
    /\ LET m == ScholarsMate[Len(moveLog) + 1]
       IN  /\ m.to \in getValidMoves(board, lastMove, sets[castlingRights], m.from)
           /\ Called(m.from, m.to, "")
    /\ UNCHANGED <<layouts, ui, timers>>

ScriptUndo ==
    /\ opCount < MaxScriptOps
    /\ Len(moveLog) > 0
    /\ Undone
    /\ UNCHANGED <<layouts, ui, timers>>

ScriptRedo ==
    /\ opCount < MaxScriptOps
    /\ Len(redoStack) > 0
    /\ Redone
    /\ UNCHANGED <<layouts, ui, timers>>

NextOpening == ScriptMove \/ ScriptUndo \/ ScriptRedo

SpecOpening == InitOpening /\ [][NextOpening]_vars

\* the same operations from the positions with little material
InitMaterial == \E fen \in MaterialFens : Start(fen)

SpecMaterial == InitMaterial /\ [][Next]_vars

\* a game of moves only, from the shuttle position
InitShuttle == Start(FenShuttle)

ShuttleMove ==
    /\ Len(moveLog) < MaxShuttleMoves
    /\ MoveStep
    /\ layouts' = Append(layouts, board')
    /\ UNCHANGED <<ui, timers>>

NextShuttle == ShuttleMove

SpecShuttle == InitShuttle /\ [][NextShuttle]_vars

\* the public operations called without the discipline of the board
\* component: move() with any arguments, undo() and redo() at any time
InitApi == Start(FenMate)

ApiMove ==
    /\ opCount < MaxApiOps
    /\ \E from \in ApiFroms :
         \E to \in ApiTos :
           \E promotionPiece \in
                 IF ~moveIsNull(Cur, from, to) /\ movePromotes(Cur, from, to)
                 THEN PromotionInputs ELSE {""} :
               Called(from, to, promotionPiece)
    /\ UNCHANGED <<layouts, ui, timers>>

ApiUndo ==
    /\ opCount < MaxApiOps
    /\ Undone
    /\ UNCHANGED <<layouts, ui, timers>>

ApiRedo ==
    /\ opCount < MaxApiOps
    /\ Redone
    /\ UNCHANGED <<layouts, ui, timers>>

ApiGetValidMoves ==
    /\ opCount < MaxApiOps
    /\ \E pos \in ApiFroms : Queried(pos)
    /\ UNCHANGED <<layouts, ui, timers>>

NextApi == ApiMove \/ ApiUndo \/ ApiRedo \/ ApiGetValidMoves

SpecApi == InitApi /\ [][NextApi]_vars

\* a numeric field of the encoding that parseInt does not read as a number
NotANumber == [isNumber |-> FALSE, value |-> 0]

\* the encoding fen with other numeric fields
withClocks(fen, halfMove, fullMove) ==
    [fen EXCEPT !.halfMove = halfMove, !.fullMove = fullMove]

\* start positions with well-formed and malformed numeric fields
ClockFens ==
    {withClocks(FenPin, Num(0), Num(1)),
     withClocks(FenCapture, Num(7), Num(12)),
     withClocks(FenMate, NotANumber, NotANumber),
     withClocks(FenStalemate, Num(7), NotANumber),
     withClocks(FenEnPassantCheck, NotANumber, Num(12))}

InitClock == \E fen \in ClockFens : Start(fen)

ClockMove ==
    /\ opCount < MaxClockOps
    /\ MoveStep
    /\ UNCHANGED <<layouts, ui, timers>>

ClockUndo ==
    /\ opCount < MaxClockOps
    /\ Undone
    /\ UNCHANGED <<layouts, ui, timers>>

ClockRedo ==
    /\ opCount < MaxClockOps
    /\ Redone
    /\ UNCHANGED <<layouts, ui, timers>>

\* getValidMoves for a piece of the side to move, as on the selection of a
\* square
ClockGetValidMoves ==
    /\ opCount < MaxClockOps
    /\ \E pos \in getPieces(board, sideToMove(Cur)) : Queried(pos)
    /\ UNCHANGED <<layouts, ui, timers>>

NextClock == ClockMove \/ ClockUndo \/ ClockRedo \/ ClockGetValidMoves

\* every operation of the class from start positions with several values of
\* the numeric fields
SpecClock == InitClock /\ [][NextClock]_vars

------------------------------------------------------------------------------
(* The events of the board component and of the side panel *)

\* the squares the pointer acts on: a8, b8, g8, g7, h2, h1
UiSquares == {Pos(0, 0), Pos(0, 1), Pos(0, 6), Pos(1, 6), Pos(6, 7), Pos(7, 7)}

\* the pieces of the promotion dialog
DialogPieces == {"q", "r", "b", "n"}

\* the handler calls no method of the game
EngineIdle ==
    UNCHANGED <<board, lastMove, moveLog, redoStack, castlingRights, sets,
                history, halfMoveClock, fullMoveNumber, isCheck,
                checkKingPosition, isCheckmate, isStalemate, isDraw, gameOver,
                winner, lastOp, opCount, call, forked>>

\* the state setters of a handler, onTurnChange and the render after them
Shown(u) ==
    /\ ui' = u
    /\ timers' = afterSetTurn(timers, ui.turn, u.turn)
    /\ UNCHANGED layouts

\* the component after game.move(from, to, promotionPiece) on game g and the
\* block under "if (moveResult)"
afterGameMove(u, g, from, to, promotionPiece) ==
    IF moveIsNull(g, from, to) THEN u
    ELSE [u EXCEPT !.board = move(g, from, to, promotionPiece).board,
                   !.turn = nextTurn(u.turn)]

\* handleSquareClick(row, col)
UiClick ==
    /\ ~ui.disableInteraction
    /\ ui.dragged = NoPos
    /\ \E pos \in UiSquares :
         LET piece == ui.board[pos.row][pos.col]
             from == ui.selected
             movingPiece == ui.board[from.row][from.col]
         IN  IF ui.selected # NoPos /\ pos \in ui.validTargets
             THEN IF \/ movingPiece = "P" /\ pos.row = 0
                     \/ movingPiece = "p" /\ pos.row = 7
                  THEN /\ EngineIdle
                       /\ Shown([ui EXCEPT
                              !.promotion = [isNull |-> FALSE, from |-> from,
                                             to |-> pos],
                              !.selected = NoPos, !.validTargets = {},
                              !.disableInteraction = TRUE])
                  ELSE /\ opCount < MaxUiOps
                       /\ Called(from, pos, "")
                       /\ Shown([afterGameMove(ui, Cur, from, pos, "") EXCEPT
                              !.selected = NoPos, !.validTargets = {}])
             ELSE IF piece # "." /\ ui.turn = pieceColor(piece)
             THEN /\ opCount < MaxUiOps
                  /\ Queried(pos)
                  /\ Shown([ui EXCEPT
                         !.selected = pos,
                         !.validTargets =
                             getValidMoves(board, lastMove,
                                           sets[castlingRights], pos)])
             ELSE /\ EngineIdle
                  /\ Shown([ui EXCEPT !.selected = NoPos, !.validTargets = {}])

\* handleDragStart(from), on a piece the component shows
UiDragStart ==
    /\ ~ui.disableInteraction
    /\ ui.dragged = NoPos
    /\ \E from \in UiSquares :
         /\ ui.board[from.row][from.col] # "."
         /\ IF ui.turn = pieceColor(ui.board[from.row][from.col])
            THEN /\ opCount < MaxUiOps
                 /\ Queried(from)
                 /\ Shown([ui EXCEPT
                        !.dragged = from, !.selected = from,
                        !.validTargets =
                            getValidMoves(board, lastMove,
                                          sets[castlingRights], from)])
            ELSE /\ EngineIdle
                 /\ Shown([ui EXCEPT !.dragged = from, !.validTargets = {}])

\* handleDragEnd(info, from), the pointer released over the square to
UiDragEnd ==
    /\ ui.dragged # NoPos
    /\ \E to \in UiSquares :
         LET from == ui.dragged
             piece == ui.board[from.row][from.col]
             isValidMove == to \in ui.validTargets
             isPromotion ==
                 /\ isValidMove
                 /\ (piece = "P" /\ to.row = 0) \/ (piece = "p" /\ to.row = 7)
         IN  /\ EngineIdle
             /\ Shown([ui EXCEPT
                    !.draggingPiece =
                        [isNull |-> FALSE, piece |-> piece, from |-> from,
                         to |-> to, isPromotion |-> isPromotion,
                         isValidMove |-> isValidMove],
                    !.animating = TRUE,
                    !.disableInteraction = TRUE,
                    !.validTargets = {},
                    !.selected = NoPos,
                    !.dragged = NoPos])

\* onAnimationComplete
UiAnimationComplete ==
    /\ ui.animating
    /\ LET d == ui.draggingPiece
       IN  IF d.isNull
           THEN EngineIdle /\ Shown([ui EXCEPT !.animating = FALSE])
           ELSE IF d.isPromotion
           THEN /\ EngineIdle
                /\ Shown([ui EXCEPT
                       !.promotion = [isNull |-> FALSE, from |-> d.from,
                                      to |-> d.to],
                       !.animating = FALSE])
           ELSE IF d.isValidMove
           THEN /\ opCount < MaxUiOps
                /\ Called(d.from, d.to, "")
                /\ Shown([afterGameMove(ui, Cur, d.from, d.to, "") EXCEPT
                       !.draggingPiece = NoDrag, !.animating = FALSE,
                       !.disableInteraction = FALSE])
           ELSE /\ EngineIdle
                /\ Shown([ui EXCEPT
                       !.draggingPiece = NoDrag, !.animating = FALSE,
                       !.disableInteraction = FALSE])

\* handlePromotionSelect(promotedPiece), a button of the dialog
UiPromotionSelect ==
    /\ ~ui.promotion.isNull
    /\ opCount < MaxUiOps
    /\ \E promotedPiece \in DialogPieces :
         LET from == ui.promotion.from
             to == ui.promotion.to
         IN  /\ Called(from, to, promotedPiece)
             /\ Shown([afterGameMove(ui, Cur, from, to, promotedPiece) EXCEPT
                    !.promotion = NoPromotion,
                    !.draggingPiece = NoDrag, !.animating = FALSE,
                    !.disableInteraction = FALSE])

\* the undo command of the side panel
UiUndo ==
    /\ opCount < MaxUiOps
    /\ Undone
    /\ Shown([ui EXCEPT !.board = undo(Cur).board,
                        !.turn = sideToMove(undo(Cur))])

\* the redo command of the side panel
UiRedo ==
    /\ opCount < MaxUiOps
    /\ Redone
    /\ Shown([ui EXCEPT !.board = redo(Cur).board,
                        !.turn = sideToMove(redo(Cur))])

NextUi ==
    \/ UiClick
    \/ UiDragStart
    \/ UiDragEnd
    \/ UiAnimationComplete
    \/ UiPromotionSelect
    \/ UiUndo
    \/ UiRedo

\* the page with a position in which a pawn is about to promote
InitUi == Start(FenMate)

SpecUi == InitUi /\ [][NextUi]_vars

\* the callback of an interval of the timer of color runs
Ticked(color) ==
    /\ timers' = tick(timers, color)
    /\ EngineIdle
    /\ UNCHANGED <<layouts, ui>>

\* a period of a live interval of the white timer has passed
TickWhite ==
    /\ timers.white.intervals # {}
    /\ Ticked("white")

\* a period of a live interval of the black timer has passed
TickBlack ==
    /\ timers.black.intervals # {}
    /\ Ticked("black")

\* the events of the page within the bound of SpecTimer
TimerUi == opCount < MaxTimerOps /\ NextUi

NextTimer == TimerUi \/ TickWhite \/ TickBlack

\* the events of the page and the periods of the two clocks
SpecTimer == InitUi /\ [][NextTimer]_vars

-----------------------------------------------------------------------------
(* Notions the properties are stated in *)

RightsNow == sets[castlingRights]

\* only move() has been applied since construction
MovesOnly == opCount = Len(moveLog)

opponentOf(color) == IF color = "white" THEN "black" ELSE "white"

kingLetter(color) == IF color = "white" THEN "w" ELSE "b"

\* the king of color stands on the board and the opponent attacks its square
kingAttacked(b, color) ==
    /\ findKing(b, kingLetter(color)) # NoPos
    /\ isSquareAttacked(b, findKing(b, kingLetter(color)), opponentOf(color))

\* the side to move has no legal move for any of its pieces
noLegalMove(g) ==
    \A p \in getPieces(g.board, sideToMove(g)) :
        getValidMoves(g.board, g.lastMove, Rights(g), p) = {}

countOf(b, letter) == Cardinality({p \in Squares : b[p.row][p.col] = letter})

\* the colour of a piece letter
colorOf(piece) == IF isUpper(piece) THEN "white" ELSE "black"

-----------------------------------------------------------------------------
(* Properties *)

\* C1: in a position reached by generator-offered moves, move(from, to) on an
\* offered destination followed by undo() restores the board, the castling
\* rights and lastMove.
C1_MoveUndoRestores ==
    MovesOnly =>
        \A m \in offered(Cur) :
            LET g == undo(move(Cur, m.from, m.to, m.promotionPiece))
            IN  /\ g.board = board
                /\ Rights(g) = RightsNow
                /\ g.lastMove = lastMove

\* C2: with a non-empty move log, undo() followed by redo() leaves the board
\* as it was before the undo.
C2_UndoRedoRestoresBoard ==
    Len(moveLog) > 0 => redo(undo(Cur)).board = board

\* C3: in a position reached by generator-offered moves, after move(pos, dest)
\* on a destination of getValidMoves(pos) the king of the moved piece's colour
\* is not attacked.
C3_OfferedMovesAreSafe ==
    MovesOnly =>
        \A pos \in {p \in Squares : board[p.row][p.col] # "."} :
            \A dest \in getValidMoves(board, lastMove, RightsNow, pos) :
              \A promotionPiece \in PromotionChoices :
                ~kingAttacked(move(Cur, pos, dest, promotionPiece).board,
                              colorOf(board[pos.row][pos.col]))

\* C4: the board holds exactly one white king and exactly one black king.
C4_OneKingEach == countOf(board, "K") = 1 /\ countOf(board, "k") = 1

\* C5: after a move() the cached status equals the status computed from
\* scratch for the position.
C5_StatusIsFresh ==
    LET check == kingAttacked(board, sideToMove(Cur))
        mate == check /\ noLegalMove(Cur)
        stale == ~check /\ noLegalMove(Cur)
        draw == /\ ~mate /\ ~stale
                /\ \/ isInsufficientMaterial(board)
                   \/ isThreefoldRepetition(Cur)
                   \/ halfMoveClock >= 100
    IN  lastOp = "move" =>
            /\ isCheckmate = mate
            /\ isStalemate = stale
            /\ isDraw = draw
            /\ gameOver = (mate \/ stale \/ draw)
            /\ winner # "null" => mate

\* C6: a move() that leaves the side to move in check without a legal move
\* sets isCheckmate, gameOver and the mover as winner; one that leaves it
\* without a legal move and not in check sets isStalemate and gameOver.
C6_MateAndStalemateDetected ==
    lastOp = "move" =>
        /\ kingAttacked(board, sideToMove(Cur)) /\ noLegalMove(Cur) =>
              /\ isCheckmate
              /\ gameOver
              /\ winner = opponentOf(sideToMove(Cur))
        /\ ~kingAttacked(board, sideToMove(Cur)) /\ noLegalMove(Cur) =>
              isStalemate /\ gameOver

\* C6 witness: a move() has just mated the side to move.
C6_Witness ==
    /\ lastOp = "move"
    /\ kingAttacked(board, sideToMove(Cur))
    /\ noLegalMove(Cur)
    /\ isCheckmate
    /\ winner = "white"

\* the earlier positions of the game (after a move()) with the current layout
earlierSameLayout ==
    {i \in 1..(Len(layouts) - 1) : layouts[i] = board}

\* C7: a move() that produces a layout for the third time sets isDraw and
\* gameOver, and the position-history log holds an entry per move().
C7_ThreefoldIsDraw ==
    (lastOp = "move" /\ Cardinality(earlierSameLayout) >= 2) =>
        /\ isDraw
        /\ gameOver
        /\ Len(history) = Len(layouts)

\* a move that is neither a capture nor a pawn move
quiet(m) == m.captured = "." /\ m.piece \notin {"P", "p"}

\* C8: after 100 consecutive quiet half-moves the game is a draw, unless the
\* side to move is mated or stalemated.
C8_FiftyMoveRule ==
    (/\ MovesOnly
     /\ Len(moveLog) >= 100
     /\ \A i \in (Len(moveLog) - 99)..Len(moveLog) : quiet(moveLog[i])
     /\ ~noLegalMove(Cur)) =>
        isDraw /\ gameOver

\* C9: right after an undo() the rights are those that held before the undone
\* move was first applied, and no recorded Move's snapshot ever changes.
C9_UndoRestoresRights ==
    /\ lastOp = "undo" => RightsNow = redoStack[Len(redoStack)].crbOrig
    /\ \A i \in 1..Len(moveLog) :
          sets[moveLog[i].castlingRightsBefore] = moveLog[i].crbOrig
    /\ \A i \in 1..Len(redoStack) :
          sets[redoStack[i].castlingRightsBefore] = redoStack[i].crbOrig

\* the flags a move takes away: both flags of a moved king, the flag of a rook
\* that leaves its home corner, the flag of a rook captured on its home corner
flagsLost(m) ==
    LET corner(p, r, c) == p.row = r /\ p.col = c
    IN  {f \in {"K", "Q", "k", "q"} :
            \/ m.piece = "K" /\ f \in {"K", "Q"}
            \/ m.piece = "k" /\ f \in {"k", "q"}
            \/ f = "K" /\ ((m.piece = "R" /\ corner(m.from, 7, 7))
                            \/ (m.captured = "R" /\ corner(m.to, 7, 7)))
            \/ f = "Q" /\ ((m.piece = "R" /\ corner(m.from, 7, 0))
                            \/ (m.captured = "R" /\ corner(m.to, 7, 0)))
            \/ f = "k" /\ ((m.piece = "r" /\ corner(m.from, 0, 7))
                            \/ (m.captured = "r" /\ corner(m.to, 0, 7)))
            \/ f = "q" /\ ((m.piece = "r" /\ corner(m.from, 0, 0))
                            \/ (m.captured = "r" /\ corner(m.to, 0, 0)))}

moved == lastOp = "move" /\ ~call.result.isNull

\* the letter of a piece type for the colour of the moved piece
ofColour(piece, type) == IF isUpper(piece) THEN toUpperCase(type) ELSE type

\* C11: when a pawn reaches the farthest rank, move() places a piece of the
\* moving colour: of the chosen type when the choice is q, r, b or n, a queen
\* when the choice is missing or anything else.
C11_PromotionDefaultsToQueen ==
    (/\ moved
     /\ call.from # call.to
     /\ \/ lastMove.piece = "P" /\ lastMove.to.row = 0
        \/ lastMove.piece = "p" /\ lastMove.to.row = 7)
    => board[lastMove.to.row][lastMove.to.col] =
          ofColour(lastMove.piece,
                   IF call.promotionPiece \in {"q", "r", "b", "n"}
                   THEN call.promotionPiece ELSE "q")

\* C12: the captured field of the result of move() is true exactly when the
\* move removed a piece from the board, and the castling field exactly when
\* a king moved two columns.
C12_ResultFlags ==
    moved =>
        /\ call.result.captured <=> lastMove.captured # "."
        /\ call.result.castling <=>
              (/\ lastMove.piece \in {"K", "k"}
               /\ Abs(lastMove.from.col - lastMove.to.col) = 2)

\* the pawn letter of the other colour
otherPawn(piece) == IF piece = "P" THEN "p" ELSE "P"

\* m is a pawn move of two rows
doubleAdvance(m) == m.piece \in {"P", "p"} /\ Abs(m.from.row - m.to.row) = 2

\* the square a pawn passed over in the two-row move m
passedOver(m) == Pos((m.from.row + m.to.row) \div 2, m.to.col)

\* the squares beside the destination of m that hold a pawn of the other colour
capturersOf(b, m) ==
    {pos \in Squares : /\ pos.row = m.to.row
                       /\ Abs(pos.col - m.to.col) = 1
                       /\ b[pos.row][pos.col] = otherPawn(m.piece)}

\* C13: after a two-square pawn advance that lands beside an enemy pawn,
\* getValidMoves of that pawn includes the passed-over square, and move() to
\* it empties the square of the advanced pawn and records that pawn as the
\* captured piece.
C13_EnPassantOfferedAndApplied ==
    (lastOp = "move" /\ doubleAdvance(lastMove)) =>
        \A pos \in capturersOf(board, lastMove) :
            LET target == passedOver(lastMove)
                after == move(Cur, pos, target, "")
            IN  /\ target \in getValidMoves(board, lastMove, RightsNow, pos)
                /\ after.board[lastMove.to.row][lastMove.to.col] = "."
                /\ after.lastMove.captured = lastMove.piece

\* the diagonal squares in front of the pawn on pos that are empty
emptyDiagonals(b, pos) ==
    {to \in Squares :
        /\ b[pos.row][pos.col] \in {"P", "p"}
        /\ to.row - pos.row = (IF b[pos.row][pos.col] = "P" THEN -1 ELSE 1)
        /\ Abs(to.col - pos.col) = 1
        /\ b[to.row][to.col] = "."}

\* the last entry of the move log is the two-square advance of an enemy pawn
\* that landed beside the pawn on pos, in the column of to
advancedBeside(b, log, pos, to) ==
    /\ Len(log) > 0
    /\ LET m == log[Len(log)]
       IN  /\ doubleAdvance(m)
           /\ m.piece = otherPawn(b[pos.row][pos.col])
           /\ m.to.row = pos.row
           /\ m.to.col = to.col

\* C14: en passant is available only immediately: an empty diagonal square is
\* offered to a pawn only while the last entry of the move log is the enemy's
\* two-square advance beside it; otherwise it is not offered and move() to it
\* removes no pawn.
C14_EnPassantOnlyImmediately ==
    \A pos \in Squares :
        \A to \in emptyDiagonals(board, pos) :
            /\ to \in getValidMoves(board, lastMove, RightsNow, pos)
                  => advancedBeside(board, moveLog, pos, to)
            /\ ~advancedBeside(board, moveLog, pos, to) =>
                  LET after == move(Cur, pos, to, "")
                  IN  /\ after.lastMove.captured = "."
                      /\ \A sq \in Squares \ {pos, to} :
                            after.board[sq.row][sq.col] = board[sq.row][sq.col]

\* C14 witness: a move() followed the two-square advance; the advanced pawn
\* and the pawn beside it still stand, and the passed-over square is no
\* longer offered.
C14_Witness ==
    /\ lastOp = "move"
    /\ Len(moveLog) = 2
    /\ doubleAdvance(moveLog[1])
    /\ board[moveLog[1].to.row][moveLog[1].to.col] = moveLog[1].piece
    /\ \E pos \in capturersOf(board, moveLog[1]) :
          /\ passedOver(moveLog[1]) \in emptyDiagonals(board, pos)
          /\ passedOver(moveLog[1])
                \notin getValidMoves(board, lastMove, RightsNow, pos)

\* the last entry of the log is an en passant capture: a diagonal pawn move
\* made right after the enemy's two-square advance beside the pawn
lastWasEnPassant(log) ==
    /\ Len(log) >= 2
    /\ LET m == log[Len(log)]
           d == log[Len(log) - 1]
       IN  /\ m.piece \in {"P", "p"}
           /\ Abs(m.from.col - m.to.col) = 1
           /\ m.to.row - m.from.row = (IF m.piece = "P" THEN -1 ELSE 1)
           /\ doubleAdvance(d)
           /\ d.piece = otherPawn(m.piece)
           /\ d.to.row = m.from.row
           /\ d.to.col = m.to.col

\* C15: undo() of an en passant capture puts the captured pawn back on the
\* square it stood on (row of the capturer's origin, column of the
\* destination), returns the capturing pawn to its origin and leaves the
\* destination empty.
C15_UndoEnPassant ==
    [][(lastOp' = "undo" /\ lastWasEnPassant(moveLog)) =>
          LET m == moveLog[Len(moveLog)]
          IN  /\ board'[m.from.row][m.to.col] = otherPawn(m.piece)
              /\ board'[m.from.row][m.from.col] = m.piece
              /\ board'[m.to.row][m.to.col] = "."]_vars

\* C15 witness: an en passant capture has been undone
C15_Witness ==
    /\ lastOp = "undo"
    /\ Len(redoStack) > 0
    /\ lastWasEnPassant(Append(moveLog, redoStack[Len(redoStack)]))

\* the wings of castling: the corner of the rook, the squares between king
\* and rook, the columns the king and the rook arrive on
Wings ==
    {[flag |-> "K", corner |-> 7, between |-> {5, 6}, kingTo |-> 6, rookTo |-> 5],
     [flag |-> "Q", corner |-> 0, between |-> {1, 2, 3}, kingTo |-> 2, rookTo |-> 3]}

homeRow(color) == IF color = "white" THEN 7 ELSE 0

lettered(color, type) == IF color = "white" THEN toUpperCase(type) ELSE type

\* king and rook of color on their home squares, nothing between them, the
\* right of the wing held, no square of the king's path attacked
castleReady(b, rights, color, w) ==
    LET r == homeRow(color)
    IN  /\ b[r][4] = lettered(color, "k")
        /\ b[r][w.corner] = lettered(color, "r")
        /\ \A c \in w.between : b[r][c] = "."
        /\ lettered(color, toLowerCase(w.flag)) \in rights
        /\ \A c \in {4, (4 + w.kingTo) \div 2, w.kingTo} :
              ~isSquareAttacked(b, Pos(r, c), opponentOf(color))

\* on board b the king and the rook of color have castled on wing w
castled(b, color, w) ==
    LET r == homeRow(color)
    IN  /\ b[r][w.kingTo] = lettered(color, "k")
        /\ b[r][w.rookTo] = lettered(color, "r")
        /\ b[r][w.corner] = "."
        /\ b[r][4] = "."

\* on board b the king and the rook of color stand on their home squares
atHome(b, color, w) ==
    LET r == homeRow(color)
    IN  /\ b[r][4] = lettered(color, "k")
        /\ b[r][w.corner] = lettered(color, "r")
        /\ b[r][w.kingTo] = "."
        /\ b[r][w.rookTo] = "."

\* C16: with king and rook at home, the squares between them empty, the right
\* held and no square of the king's path attacked, getValidMoves of the king
\* includes the castling destination; move() to it puts the king there and
\* the rook beside it and empties the corner; undo() of it returns both home.
C16_Castling ==
    \A color \in {"white", "black"} :
        \A w \in Wings :
            castleReady(board, RightsNow, color, w) =>
                LET home == Pos(homeRow(color), 4)
                    dest == Pos(homeRow(color), w.kingTo)
                    after == move(Cur, home, dest, "")
                IN  /\ dest \in getValidMoves(board, lastMove, RightsNow, home)
                    /\ castled(after.board, color, w)
                    /\ atHome(undo(after).board, color, w)

\* C16 witness: a queenside castling move() has been applied and undone
C16_Witness ==
    /\ lastOp = "undo"
    /\ Len(redoStack) > 0
    /\ LET m == redoStack[Len(redoStack)]
       IN  /\ m.piece \in {"K", "k"}
           /\ m.from.col = 4
           /\ m.to.col = 2
           /\ atHome(board, colorOf(m.piece), CHOOSE w \in Wings : w.flag = "Q")

\* the fields of the ChessGame object
fields == <<board, lastMove, moveLog, redoStack, castlingRights, sets, history,
            halfMoveClock, fullMoveNumber, isCheck, checkKingPosition,
            isCheckmate, isStalemate, isDraw, gameOver, winner>>

\* C17: move() from an empty square or to a position off the board returns
\* null and changes no field of the game.
C17_NullMove ==
    [][(/\ lastOp' = "move"
        /\ \/ board[call'.from.row][call'.from.col] = "."
           \/ call'.to \notin Squares)
       => (call'.result.isNull /\ UNCHANGED fields)]_vars

\* C17 witness: move() was called on a piece with a destination off the board
C17_Witness ==
    /\ lastOp = "move"
    /\ call.to \notin Squares
    /\ board[call.from.row][call.from.col] # "."
    /\ call.result.isNull

\* the pieces move() may leave on the destination for the moved piece: the
\* piece itself, or for a promoting pawn a piece of its colour
placeable(piece, to) ==
    IF piece = "P" /\ to.row = 0 THEN WhiteLetters \ {"P"}
    ELSE IF piece = "p" /\ to.row = 7 THEN BlackLetters \ {"p"}
    ELSE {piece}

\* C18: move() from any square holding a piece to any square of the board,
\* offered or not, returns a result, leaves from empty and to holding the
\* moved (or promoted) piece, and appends exactly one entry to the move log.
C18_PermissiveApply ==
    [][(/\ lastOp' = "move"
        /\ board[call'.from.row][call'.from.col] # "."
        /\ call'.to \in Squares)
       => (/\ ~call'.result.isNull
           /\ board'[call'.from.row][call'.from.col] = "."
           /\ board'[call'.to.row][call'.to.col]
                 \in placeable(board[call'.from.row][call'.from.col], call'.to)
           /\ Len(moveLog') = Len(moveLog) + 1)]_vars

\* C19: after a successful move() the redo stack is empty, also when the
\* move follows undo() calls, and a following redo() changes nothing.
C19_MoveClearsRedo ==
    moved => (redoStack = <<>> /\ redo(Cur) = Cur)

\* C19 witness: a move() was applied while undone moves were on the redo
\* stack
C19_Witness == moved /\ forked

\* C20: undo() with an empty move log and redo() with an empty redo stack
\* change no field of the game.
C20_EmptyUndoRedo ==
    [][(\/ lastOp' = "undo" /\ Len(moveLog) = 0
        \/ lastOp' = "redo" /\ Len(redoStack) = 0)
       => UNCHANGED fields]_vars

\* C20 witness: redo() was called right after the first move(), with nothing
\* to redo
C20_Witness ==
    /\ lastOp = "redo"
    /\ opCount = 2
    /\ Len(moveLog) = 1
    /\ redoStack = <<>>

\* C21: getValidMoves(pos) is a pure probe: after the call every field of
\* the game is as it was before.
C21_GetValidMovesIsPure ==
    [][lastOp' = "getValidMoves" => UNCHANGED fields]_vars

\* C21 witness: getValidMoves was called on a piece with destinations to
\* simulate
C21_Witness ==
    /\ lastOp = "getValidMoves"
    /\ pseudoLegalMoves(board, lastMove, RightsNow, call.from) # {}

\* the status fields of the ChessGame object
status == <<isCheck, checkKingPosition, isCheckmate, isStalemate, isDraw,
            gameOver, winner>>

\* C22: undo() and redo() never change a status field: the status stays as
\* the last move() or the construction computed it.
C22_UndoRedoKeepStatus ==
    [][lastOp' \in {"undo", "redo"} => UNCHANGED status]_vars

\* C22 witness: a mating move has been undone and the status still says
\* checkmate
C22_Witness ==
    /\ lastOp = "undo"
    /\ isCheckmate
    /\ Len(redoStack) > 0

\* C23: from the standard starting position each move of 1.e4 e5 2.Bc4 Nc6
\* 3.Qh5 Nf6 4.Qxf7 is offered when it is played, and the line ends with
\* isCheck, isCheckmate and gameOver true and winner white.
C23_ScholarsMate ==
    MovesOnly =>
        /\ Len(moveLog) < Len(ScholarsMate) =>
              ScholarsMate[Len(moveLog) + 1].to
                \in getValidMoves(board, lastMove, RightsNow,
                                  ScholarsMate[Len(moveLog) + 1].from)
        /\ Len(moveLog) = Len(ScholarsMate) =>
              (isCheck /\ isCheckmate /\ gameOver /\ winner = "white")

\* C23 witness: the seven moves have been played and the queen stands on f7
C23_Witness ==
    /\ MovesOnly
    /\ Len(moveLog) = Len(ScholarsMate)
    /\ board[1][5] = "Q"

\* the destinations getValidMoves returns over the white pieces with letter
\* piece
destinationsOf(piece) ==
    {m \in getAllValidMoves(board, lastMove, RightsNow, "w") :
        board[m.from.row][m.from.col] = piece}

\* C24: in the standard starting position getValidMoves returns 20
\* destinations over all white pieces, 16 of pawns and 4 of knights, and the
\* game is not over.
C24_TwentyOpeningMoves ==
    lastOp = "init" =>
        /\ Cardinality(getAllValidMoves(board, lastMove, RightsNow, "w")) = 20
        /\ Cardinality(destinationsOf("P")) = 16
        /\ Cardinality(destinationsOf("N")) = 4
        /\ ~gameOver

\* C24 witness: the constructed standard position with all four rights
C24_Witness ==
    /\ lastOp = "init"
    /\ RightsNow = {"K", "Q", "k", "q"}
    /\ countOf(board, "P") = 8
    /\ countOf(board, "N") = 2

\* the pieces on the board are the two kings and knights knights
kingsAnd(b, knights) ==
    /\ countOf(b, "K") = 1
    /\ countOf(b, "k") = 1
    /\ countOf(b, "N") + countOf(b, "n") = knights
    /\ Cardinality({p \in Squares : b[p.row][p.col] # "."}) = 2 + knights

\* the status is the one a construction or a move() has just computed
justEvaluated == lastOp \in {"init", "move"}

\* C25: a position of the two kings and one knight in which the side to move
\* has a legal move, constructed or reached by a move(), reports isDraw and
\* gameOver true and winner null.
C25_LoneKnightIsDraw ==
    (justEvaluated /\ kingsAnd(board, 1) /\ ~noLegalMove(Cur))
        => (isDraw /\ gameOver /\ winner = "null")

\* C26: a position of the two kings alone in which the side to move has a
\* legal move reports isDraw and gameOver true.
C26_BareKingsIsDraw ==
    (justEvaluated /\ kingsAnd(board, 0) /\ ~noLegalMove(Cur))
        => (isDraw /\ gameOver)

\* C30: at most one of isCheckmate, isStalemate and isDraw is true.
C30_OneEndFlag ==
    /\ ~(isCheckmate /\ isStalemate)
    /\ ~(isCheckmate /\ isDraw)
    /\ ~(isStalemate /\ isDraw)

\* the squares that hold a king
kings(b) == {p \in Squares : b[p.row][p.col] \in {"K", "k"}}

\* the two-column destinations getValidMoves offers the king on pos
castlingOffers(pos) ==
    {to \in getValidMoves(board, lastMove, RightsNow, pos) :
        Abs(to.col - pos.col) = 2}

\* the wing on which the king arrives on column col
wingTo(col) == CHOOSE w \in Wings : w.kingTo = col

\* C27: getValidMoves offers a king a castling destination only if the flag
\* of the wing is set, the king stands on its home square and is not
\* attacked, the squares between king and rook are empty and neither the
\* square the king crosses nor its destination is attacked.
C27_CastlingSafety ==
    \A pos \in kings(board) :
        \A to \in castlingOffers(pos) :
            LET color == colorOf(board[pos.row][pos.col])
                r == homeRow(color)
            IN  /\ pos = Pos(r, 4)
                /\ to.row = r
                /\ to.col \in {2, 6}
                /\ lettered(color, toLowerCase(wingTo(to.col).flag)) \in RightsNow
                /\ \A c \in wingTo(to.col).between : board[r][c] = "."
                /\ \A c \in {4, (4 + to.col) \div 2, to.col} :
                      ~isSquareAttacked(board, Pos(r, c), opponentOf(color))

\* C27 witness: the white king is offered g1 and not c1, because d1 is
\* attacked while the queenside flag is set and b1, c1, d1 are empty
C27_Witness ==
    /\ board[7][4] = "K"
    /\ castlingOffers(Pos(7, 4)) = {Pos(7, 6)}
    /\ "Q" \in RightsNow
    /\ \A c \in {1, 2, 3} : board[7][c] = "."
    /\ isSquareAttacked(board, Pos(7, 3), "black")
    /\ ~isSquareAttacked(board, Pos(7, 2), "black")

\* C28: getValidMoves offers a castling destination only if a rook of the
\* king's colour stands on the corner of that wing, so that move() to the
\* destination leaves a rook beside the king.
C28_RookPresentForCastling ==
    \A pos \in kings(board) :
        \A to \in castlingOffers(pos) :
            LET color == colorOf(board[pos.row][pos.col])
                w == wingTo(to.col)
            IN  /\ board[pos.row][w.corner] = lettered(color, "r")
                /\ move(Cur, pos, to, "").board[pos.row][w.rookTo]
                      = lettered(color, "r")

\* C29: every pseudo-legal destination of a piece whose application by
\* move() leaves the king of the piece's colour un-attacked is contained in
\* getValidMoves; in particular the en passant capture of a pawn that gives
\* check by its double advance.
C29_QueryIsComplete ==
    \A pos \in {p \in Squares : board[p.row][p.col] # "."} :
        \A dest \in pseudoLegalMoves(board, lastMove, RightsNow, pos) :
            ~kingAttacked(move(Cur, pos, dest, "").board,
                          colorOf(board[pos.row][pos.col]))
                => dest \in getValidMoves(board, lastMove, RightsNow, pos)

\* on board b the scan of the opposing pieces and the attack test give the
\* same answer for every king that stands on b
checksAgree(b) ==
    \A color \in {"white", "black"} :
        findKing(b, kingLetter(color)) # NoPos =>
            (isKingInCheck(b, lastMove, RightsNow, kingLetter(color))
                <=> isSquareAttacked(b, findKing(b, kingLetter(color)),
                                     opponentOf(color)))

\* the boards on which the filter of getValidMoves tests its destinations
probeBoards ==
    UNION {{probeBoard(board, pos, to) :
                to \in pseudoLegalMoves(board, lastMove, RightsNow, pos)} :
           pos \in {p \in Squares : board[p.row][p.col] # "."}}

\* C31: on the board of every reachable state and on every board the
\* legality probe tests, isKingInCheck(c) equals isSquareAttacked(square of
\* c's king, opponent of c) for each king that is on the board.
C31_CheckAgreesWithAttack ==
    /\ checksAgree(board)
    /\ \A b \in probeBoards : checksAgree(b)

\* C31 witness: a king is in check by both tests, and a probe board exists
\* on which a king is attacked
C31_Witness ==
    /\ \E color \in {"white", "black"} :
          /\ kingAttacked(board, color)
          /\ isKingInCheck(board, lastMove, RightsNow, kingLetter(color))
    /\ \E b \in probeBoards : \E color \in {"white", "black"} :
          kingAttacked(b, color)

\* C32: a check test on a board that lacks the tested king is fatal: no
\* status refresh (constructor, move) returns with the king of the side to
\* move missing from the board.
C32_MissingKingIsFatal ==
    justEvaluated => findKing(board, kingLetter(sideToMove(Cur))) # NoPos

\* what the encoding says in a numeric field: its number, dflt when malformed
written(field, dflt) == IF field.isNumber THEN field.value ELSE dflt

redoKeepsRights(g, from, to) ==
    LET applied == move(g, from, to, "")
    IN  Rights(redo(undo(applied))) = Rights(applied)

\* C34: for every piece and every destination getValidMoves offers it, the
\* castling rights after move, undo, redo are the rights after the move.
C34_RedoReproducesRights ==
    \A from \in {p \in Squares : board[p.row][p.col] # "."} :
        \A to \in getValidMoves(board, lastMove, RightsNow, from) :
            redoKeepsRights(Cur, from, to)

\* C34 witness: a rook move from its corner is offered that clears a flag;
\* undo brings the flag back and redo clears it again
C34_Witness ==
    \E from \in {p \in Squares : board[p.row][p.col] \in {"R", "r"}} :
        \E to \in getValidMoves(board, lastMove, RightsNow, from) :
            LET applied == move(Cur, from, to, "")
            IN  /\ Rights(applied) # RightsNow
                /\ Rights(undo(applied)) = RightsNow
                /\ Rights(redo(undo(applied))) = Rights(applied)

\* the step is a call of game.move
callsMove == lastOp' = "move" /\ opCount' = opCount + 1

\* C35: whatever the order of the events of the board and of the side panel,
\* every call game.move(from, to) of the component has to in
\* game.getValidMoves(from) for the position at the call, and the piece on
\* from belongs to the side to move.
C35_ComponentMovesAreLegal ==
    [][callsMove =>
        /\ call'.to \in getValidMoves(board, lastMove, RightsNow, call'.from)
        /\ board[call'.from.row][call'.from.col] # "."
        /\ colorOf(board[call'.from.row][call'.from.col]) = sideToMove(Cur)]_vars

\* C36: the turn the component reports through onTurnChange is the side to
\* move of the engine: white iff the move log has even length.
C36_TurnFollowsEngine ==
    ui.turn = sideToMove(Cur)

\* C36 witness: a promotion has been made, undone and redone, and it is
\* black's turn
C36_Witness ==
    /\ ui.turn = "black"
    /\ lastOp = "redo"
    /\ lastMove.piece = "P"
    /\ lastMove.to.row = 0

\* C37: at most one of the two timers has a live interval, startTimer never
\* gives a timer a second interval, the remaining seconds are never below 0
\* and drop by at most 1 in a period.
C37_ClocksExclusive ==
    /\ [](/\ timers.white.intervals = {} \/ timers.black.intervals = {}
          /\ \A color \in {"white", "black"} :
                /\ Cardinality(startTimer(timers, color)[color].intervals) <= 1
                /\ timers[color].remainingSeconds >= 0)
    /\ [][\A color \in {"white", "black"} :
            timers'[color].remainingSeconds
                >= timers[color].remainingSeconds - 1]_vars

\* C37 witness: the white clock has run out, the turn has changed and the
\* black clock is running and has counted
C37_Witness ==
    /\ timers.white.remainingSeconds = 0
    /\ timers.white.intervals = {}
    /\ timers.black.intervals # {}
    /\ timers.black.remainingSeconds < InitialSeconds

=============================================================================
